---- MODULE Spec2Model ----
(***************************************************************************)
(* A model of the SymbolConvert core: the anchor colour codec, the point   *)
(* reconciler, the option expander, the file naming scheme, the library    *)
(* assembler, the variant extractor, and the generator with the artifact   *)
(* worker.  Every operator is a translation of the Python function of the  *)
(* same name in src/utils.py, src/svg_functions.py or src/tex_functions.py.*)
(*                                                                         *)
(* Strings that the code inspects character by character (file names) are  *)
(* sequences of one-character strings.  Coordinates are integers counted   *)
(* in units of the tolerance eps = 1e-6 of are_two_points_close, so that   *)
(* the comparisons "x >= y - eps" and "x <= y + eps" are exact.            *)
(***************************************************************************)
EXTENDS Integers, Sequences, FiniteSets, TLC

VARIABLES
    pc,             \* "idle", then the last call completed: "encoded", "read",
                    \* "roundtrip", "decoded", "reconciled", "expanded", "named",
                    \* "parsed", "assembled", "extracted", "loaded", "generated",
                    \* "converted"
    codec_index,    \* the index last given to index_to_color, or None
    codec_color,    \* the colour held (made by index_to_color or read from a line)
    codec_result,   \* what color_to_index did with codec_color
    rec_lines,      \* the argument of the last find_matching_line_point call
    rec_acc,        \* its dict acc when the counting loop ended (insertion order)
    rec_counted,    \* per endpoint, the key of acc it was counted under
    rec_point,      \* the point it returned
    exp_options,    \* the argument of the last options_object_to_array call
    exp_result,     \* the list it returned
    nm_args,        \* the arguments of the last component_name_from_info call
    nm_name,        \* the name it returned
    nm_parsed,      \* what parse_filename did with that name
    asm_symbols,    \* the <symbol> elements combine_SVGs_to_symbol read, in order
    asm_metadata,   \* the <component> elements of the <metadata> it built
    ext_args,       \* the marker lines and the component of the last extraction
    ext_assigned,   \* the assignments to pin_anchor.point it made, in order
    ext_printed,    \* the messages it printed
    ext_result,     \* the (errorcode, fragment) it returned, or what it raised
    NODES_AND_PATHS, \* the loaded configuration
    heap,           \* the list objects the configuration refers to
    tex_files,      \* the .tex files the generator wrote, in order
    dvi_stem,       \* the stem of the artifact last given to the worker
    dvi_result      \* what the worker made of it, or what it raised

codec_vars == <<codec_index, codec_color, codec_result>>
rec_vars == <<rec_lines, rec_acc, rec_counted, rec_point>>
exp_vars == <<exp_options, exp_result>>
nm_vars == <<nm_args, nm_name, nm_parsed>>
asm_vars == <<asm_symbols, asm_metadata>>
ext_vars == <<ext_args, ext_assigned, ext_printed, ext_result>>
bld_vars == <<NODES_AND_PATHS, heap, tex_files, dvi_stem, dvi_result>>
vars == <<pc, codec_vars, rec_vars, exp_vars, nm_vars, asm_vars, ext_vars, bld_vars>>

None == "None"

\* A raised Python exception, as the outcome of a call.
Raised(kind) == [raised |-> kind]

Returned(value) == [returned |-> value]

IsRaised(outcome) == "raised" \in DOMAIN outcome

(***************************************************************************)
(* Anchor colour codec (src/utils.py)                                      *)
(***************************************************************************)

\* Bitwise and of two naturals (Python's & on non-negative ints).
RECURSIVE BitAnd(_, _)
BitAnd(a, b) ==
    IF a = 0 \/ b = 0 THEN 0
    ELSE (a % 2) * (b % 2) + 2 * BitAnd(a \div 2, b \div 2)

\* The literal 0x99 of the green and blue channels.
FixedChannel == 153

\* The literal 0x11 of color_to_index's test of the red channel.
RedMask == 17

\* The largest index index_to_color is documented for.
MaxColorIndex == 63

Color(r, g, b) == [red |-> r, green |-> g, blue |-> b]

\* r = index << 2; Color(f"rgb({r},{0x99},{0x99})")
index_to_color(index) == Color(index * 4, FixedChannel, FixedChannel)

\* The same test with a missing blue check.
color_to_index_no_blue(color) ==
    IF BitAnd(color.red, RedMask) # 0 \/ color.green # FixedChannel
    THEN Raised("ValueError")
    ELSE Returned(color.red \div 4)

\* if color.red & 0x11 != 0 or green != 0x99 or blue != 0x99: raise ValueError
\* return color.red >> 2
color_to_index(color) ==
    IF BitAnd(color.red, RedMask) # 0
       \/ color.green # FixedChannel
       \/ color.blue # FixedChannel
    THEN Raised("ValueError")
    ELSE Returned(color.red \div 4)

\* The channel values a stroke colour read from an artifact can have.
Channel == 0 .. 255

\* Green and blue values around 0x99, and the extremes.
OtherChannels == {0, FixedChannel - 1, FixedChannel, FixedChannel + 1, 255}

CodecIdle ==
    /\ codec_index = None
    /\ codec_color = None
    /\ codec_result = None

\* create_tex_files_from_json encodes an anchor index as a colour.
Encode ==
    /\ pc = "idle"
    /\ \E i \in 0 .. MaxColorIndex :
        /\ codec_index' = i
        /\ codec_color' = index_to_color(i)
    /\ pc' = "encoded"
    /\ UNCHANGED <<codec_result, rec_vars, exp_vars, nm_vars, asm_vars, ext_vars, bld_vars>>

\* The extractor meets a line whose stroke colour is any RGB value.
ReadColor ==
    /\ pc = "idle"
    /\ \E r \in Channel, g \in OtherChannels, b \in OtherChannels :
        codec_color' = Color(r, g, b)
    /\ pc' = "read"
    /\ UNCHANGED <<codec_index, codec_result, rec_vars, exp_vars, nm_vars, asm_vars, ext_vars, bld_vars>>

\* The extractor decodes the colour it holds.
Decode ==
    /\ pc \in {"encoded", "read"}
    /\ codec_result' = color_to_index(codec_color)
    /\ pc' = IF pc = "encoded" THEN "roundtrip" ELSE "decoded"
    /\ UNCHANGED <<codec_index, codec_color, rec_vars, exp_vars, nm_vars, asm_vars, ext_vars, bld_vars>>

NextCodec == Encode \/ ReadColor \/ Decode

(***************************************************************************)
(* Point reconciler (src/utils.py, and its copy in src/svg_functions.py)   *)
(***************************************************************************)

\* The default eps = 1e-6 of are_two_points_close: the unit of coordinates.
Eps == 1

\* The largest x coordinate of an endpoint, in units of eps.
MaxX == 2

\* The largest number of marker lines in one call.
MaxLines == 2

Point(x, y) == [x |-> x, y |-> y]

\* The same test on the x axis alone.
are_two_points_close_x_only(pointA, pointB) ==
    /\ pointA.x >= pointB.x - Eps
    /\ pointA.x <= pointB.x + Eps

are_two_points_close(pointA, pointB) ==
    /\ pointA.x >= pointB.x - Eps
    /\ pointA.x <= pointB.x + Eps
    /\ pointA.y >= pointB.y - Eps
    /\ pointA.y <= pointB.y + Eps

\* points = [[line["start"], line["end"]] for line in lines], flattened
Flatten(lines) ==
    [i \in 1 .. 2 * Len(lines) |->
        IF i % 2 = 1 THEN lines[(i + 1) \div 2].start ELSE lines[i \div 2].end]

\* next((k for k in acc.keys() if k and point and are_two_points_close(k, point)),
\* None): the position in acc of the first key close to point, 0 for None.
\* (A Point object is truthy, so "k and point" filters nothing.)
FirstCloseKey(acc, point) ==
    LET hits == {k \in 1 .. Len(acc) : are_two_points_close(acc[k].key, point)}
    IN  IF hits = {} THEN 0 ELSE CHOOSE k \in hits : \A h \in hits : k <= h

\* One pass of the counting loop's body for `point`: acc is the dict as a
\* sequence of entries in insertion order, counted the key each endpoint so
\* far was counted under.
CountPoint(state, point) ==
    LET close == FirstCloseKey(state.acc, point)
    IN  IF close # 0
        THEN [acc |-> [state.acc EXCEPT ![close].count = @ + 1],
              counted |-> Append(state.counted, state.acc[close].key)]
        ELSE [acc |-> Append(state.acc, [key |-> point, count |-> 1]),
              counted |-> Append(state.counted, point)]

\* acc = {points[0]: 1}; for point in points[1:]: ...
RECURSIVE CountLoop(_, _, _)
CountLoop(state, points, i) ==
    IF i > Len(points) THEN state
    ELSE CountLoop(CountPoint(state, points[i]), points, i + 1)

CountPoints(points) ==
    CountLoop([acc |-> <<[key |-> points[1], count |-> 1]>>,
               counted |-> <<points[1]>>], points, 2)

\* The scan with >= in place of >: the last maximum wins.
RECURSIVE MaxScanLastWins(_, _, _, _)
MaxScanLastWins(acc, i, point, max_count) ==
    IF i > Len(acc) THEN point
    ELSE IF acc[i].count >= max_count
         THEN MaxScanLastWins(acc, i + 1, acc[i].key, acc[i].count)
         ELSE MaxScanLastWins(acc, i + 1, point, max_count)

\* point = None; max_count = 0
\* for entry in acc: if acc[entry] > max_count: point = entry; max_count = acc[entry]
RECURSIVE MaxScan(_, _, _, _)
MaxScan(acc, i, point, max_count) ==
    IF i > Len(acc) THEN point
    ELSE IF acc[i].count > max_count
         THEN MaxScan(acc, i + 1, acc[i].key, acc[i].count)
         ELSE MaxScan(acc, i + 1, point, max_count)

\* points[0] of an empty list raises IndexError.
find_matching_line_point(lines) ==
    IF Len(lines) = 0 THEN Raised("IndexError")
    ELSE Returned(MaxScan(CountPoints(Flatten(lines)).acc, 1, None, 0))

\* The endpoints a marker line can have: along the x axis on the eps grid,
\* and along the y axis at, and beyond, the tolerance.
Points == {Point(x, 0) : x \in 0 .. MaxX} \cup {Point(0, Eps), Point(0, 2 * Eps)}

MarkerLines == [start : Points, end : Points]

LineLists == UNION {[1 .. n -> MarkerLines] : n \in 0 .. MaxLines}

\* _convert_SVG_to_symbol_worker calls find_matching_line_point(lines).
FindMatchingLinePoint ==
    /\ pc = "idle"
    /\ pc' = "reconciled"
    /\ \E lines \in LineLists :
        LET state == IF Len(lines) = 0 THEN [acc |-> <<>>, counted |-> <<>>]
                     ELSE CountPoints(Flatten(lines))
        IN  /\ rec_lines' = lines
            /\ rec_acc' = state.acc
            /\ rec_counted' = state.counted
            /\ rec_point' = find_matching_line_point(lines)
    /\ UNCHANGED <<codec_vars, exp_vars, nm_vars, asm_vars, ext_vars, bld_vars>>

NextReconciler == FindMatchingLinePoint

(***************************************************************************)
(* Option expander (src/utils.py)                                          *)
(*                                                                         *)
(* An option dict is a record with the keys it has: a toggle or an enum    *)
(* leaf has "name"; an enumeration has "enumOptions" and may have          *)
(* "selectNone".                                                           *)
(***************************************************************************)

\* The largest number of option specs of one component.
MaxOptions == 2

\* for converted_option in converted_options:
\*     optionsArray = [option]; optionsArray.extend(converted_option)
PrependTo(option, converted_options) ==
    [j \in 1 .. Len(converted_options) |-> <<option>> \o converted_options[j]]

\* for option in current_option["enumOptions"]: (the loop above)
RECURSIVE EnumLoop(_, _, _)
EnumLoop(enumOptions, converted_options, i) ==
    IF i > Len(enumOptions) THEN <<>>
    ELSE PrependTo(enumOptions[i], converted_options)
            \o EnumLoop(enumOptions, converted_options, i + 1)

\* The enumeration branch taking an absent selectNone for false.
EnumBranchAbsentIsFalse(current_option, converted_options) ==
    EnumLoop(current_option.enumOptions, converted_options, 1)
        \o (IF "selectNone" \in DOMAIN current_option /\ current_option.selectNone
            THEN converted_options
            ELSE <<>>)

\* The branch `if "enumOptions" in current_option`
EnumBranch(current_option, converted_options) ==
    EnumLoop(current_option.enumOptions, converted_options, 1)
        \o (IF "selectNone" \notin DOMAIN current_option \/ current_option.selectNone
            THEN converted_options
            ELSE <<>>)

\* The toggle loop emitting the selection without the toggle first.
RECURSIVE ToggleBranchOffFirst(_, _, _)
ToggleBranchOffFirst(current_option, converted_options, j) ==
    IF j > Len(converted_options) THEN <<>>
    ELSE <<converted_options[j], <<current_option>> \o converted_options[j]>>
            \o ToggleBranchOffFirst(current_option, converted_options, j + 1)

\* The else branch: for convertedOption in converted_options:
\*     result.append([current_option, *convertedOption]); result.append(convertedOption)
RECURSIVE ToggleBranch(_, _, _)
ToggleBranch(current_option, converted_options, j) ==
    IF j > Len(converted_options) THEN <<>>
    ELSE <<<<current_option>> \o converted_options[j], converted_options[j]>>
            \o ToggleBranch(current_option, converted_options, j + 1)

RECURSIVE options_object_to_array(_)
options_object_to_array(options) ==
    IF Len(options) = 0 THEN << <<>> >>
    ELSE LET current_option == options[1]
             converted_options == options_object_to_array(Tail(options))
         IN  IF "enumOptions" \in DOMAIN current_option
             THEN EnumBranch(current_option, converted_options)
             ELSE ToggleBranch(current_option, converted_options, 1)

\* The leaves and toggles a component declaration is drawn from.
LeafNames == {"x", "y", "z"}

ToggleNames == {"t", "u"}

Leaf(name) == [name |-> name]

\* The lists of distinct leaves an enumeration can declare.
EnumOptionLists ==
    {e \in UNION {[1 .. n -> {Leaf(l) : l \in LeafNames}] :
                    n \in 0 .. Cardinality(LeafNames)} :
        \A i, j \in 1 .. Len(e) : i # j => e[i] # e[j]}

OptionSpecs ==
    {Leaf(t) : t \in ToggleNames}
        \cup {[enumOptions |-> e] : e \in EnumOptionLists}
        \cup {[enumOptions |-> e, selectNone |-> b] :
                e \in EnumOptionLists, b \in BOOLEAN}

OptionSpecLists == UNION {[1 .. n -> OptionSpecs] : n \in 0 .. MaxOptions}

\* A caller expands the declared options of one component.
OptionsObjectToArray ==
    /\ pc = "idle"
    /\ pc' = "expanded"
    /\ \E options \in OptionSpecLists :
        /\ exp_options' = options
        /\ exp_result' = options_object_to_array(options)
    /\ UNCHANGED <<codec_vars, rec_vars, nm_vars, asm_vars, ext_vars, bld_vars>>

NextExpander == OptionsObjectToArray

(***************************************************************************)
(* File naming (src/utils.py)                                              *)
(*                                                                         *)
(* A string is a sequence of one-character strings.  The optional index    *)
(* argument is <<>> for None and <<i>> for the int i.                      *)
(***************************************************************************)

\* The largest component index of the small indices drawn.
MaxIndex == 12

\* The longest component label drawn.
MaxLabelLen == 2

\* The largest number of option display names of one selection.
MaxOptionNames == 1

DigitChars == <<"0", "1", "2", "3", "4", "5", "6", "7", "8", "9">>

\* The characters the regular expression \w matches, among ASCII.
WordChars ==
    {"a", "b", "c", "d", "e", "f", "g", "h", "i", "j", "k", "l", "m",
     "n", "o", "p", "q", "r", "s", "t", "u", "v", "w", "x", "y", "z",
     "A", "B", "C", "D", "E", "F", "G", "H", "I", "J", "K", "L", "M",
     "N", "O", "P", "Q", "R", "S", "T", "U", "V", "W", "X", "Y", "Z",
     "_"} \cup {DigitChars[d] : d \in 1 .. 10}

\* The decimal digits of a natural number.
RECURSIVE Decimal(_)
Decimal(n) ==
    IF n < 10 THEN <<DigitChars[n + 1]>>
    ELSE Decimal(n \div 10) \o <<DigitChars[(n % 10) + 1]>>

RECURSIVE ZeroPad(_, _)
ZeroPad(str, width) ==
    IF Len(str) >= width THEN str ELSE ZeroPad(<<"0">> \o str, width)

\* f"{index:03d}" of a non-negative index
Format03d(index) == ZeroPad(Decimal(index), 3)

\* re.sub(r"\W", "-", part)
SubNonWord(part) ==
    [i \in 1 .. Len(part) |-> IF part[i] \in WordChars THEN part[i] ELSE "-"]

\* sep.join(parts)
RECURSIVE Join(_, _)
Join(sep, parts) ==
    IF Len(parts) = 0 THEN <<>>
    ELSE IF Len(parts) = 1 THEN parts[1]
    ELSE parts[1] \o sep \o Join(sep, Tail(parts))

\* str.split(sep) for a one-character sep
RECURSIVE Split(_, _)
Split(str, sep) ==
    LET at == {i \in 1 .. Len(str) : str[i] = sep}
    IN  IF at = {} THEN <<str>>
        ELSE LET k == CHOOSE i \in at : \A h \in at : i <= h
             IN  <<SubSeq(str, 1, k - 1)>> \o Split(SubSeq(str, k + 1, Len(str)), sep)

DigitValue(char) == (CHOOSE d \in 1 .. 10 : DigitChars[d] = char) - 1

RECURSIVE DecimalValue(_)
DecimalValue(digits) ==
    IF Len(digits) = 0 THEN 0
    ELSE 10 * DecimalValue(SubSeq(digits, 1, Len(digits) - 1))
            + DigitValue(digits[Len(digits)])

\* int(str): an optional sign and decimal digits (a file name part holds
\* neither blanks nor underscores); anything else raises ValueError.
PyInt(str) ==
    LET signed == Len(str) > 0 /\ str[1] \in {"-", "+"}
        digits == IF signed THEN Tail(str) ELSE str
    IN  IF Len(digits) = 0
           \/ \E i \in 1 .. Len(digits) :
                digits[i] \notin {DigitChars[d] : d \in 1 .. 10}
        THEN Raised("ValueError")
        ELSE Returned(IF signed /\ str[1] = "-"
                      THEN 0 - DecimalValue(digits)
                      ELSE DecimalValue(digits))

NodeStr == <<"n", "o", "d", "e">>

PathStr == <<"p", "a", "t", "h">>

\* The parts of the name before the substitution, with the label before the
\* index.
BasenameArrayLabelFirst(index, id, isnode, options) ==
    <<IF isnode THEN NodeStr ELSE PathStr>>
        \o <<id>>
        \o (IF index # <<>> THEN <<Format03d(index[1])>> ELSE <<>>)
        \o (IF Len(options) > 0 THEN <<Join(<<"-">>, options)>> ELSE <<>>)

\* basename_array of component_name_from_info before the substitution
BasenameArray(index, id, isnode, options) ==
    <<IF isnode THEN NodeStr ELSE PathStr>>
        \o (IF index # <<>> THEN <<Format03d(index[1])>> ELSE <<>>)
        \o <<id>>
        \o (IF Len(options) > 0 THEN <<Join(<<"-">>, options)>> ELSE <<>>)

component_name_from_info(index, id, isnode, options) ==
    LET basename_array == BasenameArray(index, id, isnode, options)
    IN  Join(<<"_">>,
             [i \in 1 .. Len(basename_array) |-> SubNonWord(basename_array[i])])

\* parts = filename.split("_"); return int(parts[1]), (parts[0] == "node")
parse_filename(filename) ==
    LET parts == Split(filename, "_")
    IN  IF Len(parts) < 2 THEN Raised("IndexError")
        ELSE IF IsRaised(PyInt(parts[2])) THEN PyInt(parts[2])
        ELSE Returned(<<PyInt(parts[2]).returned, parts[1] = NodeStr>>)

\* The characters of labels and option names: a letter, a digit, the
\* separator itself, a blank and a sign.
LabelChars == {"f", "7", "_", " ", "-"}

Labels == UNION {[1 .. n -> LabelChars] : n \in 0 .. MaxLabelLen}

\* Display names of options, as in "x=1" and "o_p".
OptionDisplayNames == {<<"x", "=", "1">>, <<"o", "_", "p">>}

OptionNameLists ==
    UNION {[1 .. n -> OptionDisplayNames] : n \in 0 .. MaxOptionNames}

\* Component indices: the small ones and those around a change of width.
Indices == (0 .. MaxIndex) \cup {99, 100, 101, 999, 1000, 1001}

\* create_tex_files_from_json names the .tex file of one selection.
ComponentNameFromInfo ==
    /\ pc = "idle"
    /\ pc' = "named"
    /\ \E index \in Indices, id \in Labels, isnode \in BOOLEAN,
          options \in OptionNameLists :
        /\ nm_args' = [index |-> index, id |-> id, isnode |-> isnode,
                       options |-> options]
        /\ nm_name' = component_name_from_info(<<index>>, id, isnode, options)
    /\ UNCHANGED <<nm_parsed, codec_vars, rec_vars, exp_vars, asm_vars, ext_vars, bld_vars>>

\* _convert_DVI_to_symbol_worker parses the stem of the file it is given.
ParseFilename ==
    /\ pc = "named"
    /\ pc' = "parsed"
    /\ nm_parsed' = parse_filename(nm_name)
    /\ UNCHANGED <<nm_args, nm_name, codec_vars, rec_vars, exp_vars, asm_vars, ext_vars, bld_vars>>

NextNaming == ComponentNameFromInfo \/ ParseFilename

(***************************************************************************)
(* Library assembler (src/svg_functions.py)                                *)
(*                                                                         *)
(* A <symbol> fragment is a record of what combine_SVGs_to_symbol reads of *)
(* it: its id, the type and tikz attributes of its componentInformation,   *)
(* its <option> elements in document order and its <pin> elements.         *)
(***************************************************************************)

\* The largest number of fragments in build/.
MaxFragments == 3

\* The <symbol> _convert_DVI_to_symbol_worker writes for a component with the
\* one toggle "x" and the option selection `selection` (display names):
\* id = component_name_from_info(None, name or drawName, is_node, optionsDisplay).
Symbol(is_node, tikz_name, selection) ==
    [id |-> component_name_from_info(<<>>, tikz_name, is_node, selection),
     type |-> IF is_node THEN "node" ELSE "path",
     tikz |-> tikz_name,
     options |-> <<[name |-> <<"x">>, active |-> selection # <<>>]>>,
     pins |-> IF is_node THEN <<[name |-> "a"]>>
              ELSE <<[name |-> "START"], [name |-> "END"]>>]

\* for symbol in symbols: tikzname = info.getAttribute("tikz"); append symbol to
\* clusteredSymbols[tikzname], a new list on its first occurrence.  The dict is
\* the sequence of its entries in insertion order.
RECURSIVE ClusterLoop(_, _, _)
ClusterLoop(clusteredSymbols, symbols, i) ==
    IF i > Len(symbols) THEN clusteredSymbols
    ELSE LET tikzname == symbols[i].tikz
             at == {k \in 1 .. Len(clusteredSymbols) :
                        clusteredSymbols[k].key = tikzname}
         IN  IF at # {}
             THEN ClusterLoop(
                    [clusteredSymbols EXCEPT
                        ![CHOOSE k \in at : TRUE].symbols = Append(@, symbols[i])],
                    symbols, i + 1)
             ELSE ClusterLoop(
                    Append(clusteredSymbols,
                           [key |-> tikzname, symbols |-> <<symbols[i]>>]),
                    symbols, i + 1)

\* An <option> moved into a <variant>: active and display removed.
VariantOption(option) == [name |-> option.name]

IsActive(option) == option.active

\* The <variant> of one symbol: its id, its active options, its pins.
Variant(symbol) ==
    [for |-> symbol.id,
     options |-> [k \in 1 .. Len(SelectSeq(symbol.options, IsActive)) |->
                    VariantOption(SelectSeq(symbol.options, IsActive)[k])],
     pins |-> symbol.pins]

\* A <component> whose variants are all built from the first symbol of the
\* cluster.
ComponentOfFirst(clusteredSymbol) ==
    LET firstSymbol == clusteredSymbol[1]
    IN  [type |-> firstSymbol.type,
         tikz |-> firstSymbol.tikz,
         options |-> firstSymbol.options,
         variants |-> [k \in 1 .. Len(clusteredSymbol) |-> Variant(firstSymbol)]]

\* The <component> of one cluster: the attributes and the <options> block of
\* its first symbol, cloned before any variant is built, then one <variant>
\* per symbol of the cluster.
Component(clusteredSymbol) ==
    LET firstSymbol == clusteredSymbol[1]
    IN  [type |-> firstSymbol.type,
         tikz |-> firstSymbol.tikz,
         options |-> firstSymbol.options,
         variants |-> [k \in 1 .. Len(clusteredSymbol) |->
                        Variant(clusteredSymbol[k])]]

\* The <metadata> element: one <component> per entry of clusteredSymbols.
combine_SVGs_to_symbol(symbols) ==
    LET clusteredSymbols == ClusterLoop(<<>>, symbols, 1)
    IN  [k \in 1 .. Len(clusteredSymbols) |->
            Component(clusteredSymbols[k].symbols)]

\* The component names of the declarations the build ran over.
TikzNames == {<<"A">>, <<"B">>}

\* The option selections of a component with one toggle.
Selections == {<<>>, << <<"x">> >>}

Symbols ==
    {Symbol(is_node, tikz_name, selection) :
        is_node \in BOOLEAN, tikz_name \in TikzNames, selection \in Selections}

\* The fragments of build/*.svg in the order glob returns them: one file per
\* kind, component and selection.
SymbolLists ==
    {l \in UNION {[1 .. n -> Symbols] : n \in 0 .. MaxFragments} :
        \A i, j \in 1 .. Len(l) : i # j => l[i] # l[j]}

CombineSVGsToSymbol ==
    /\ pc = "idle"
    /\ pc' = "assembled"
    /\ \E symbols \in SymbolLists :
        /\ asm_symbols' = symbols
        /\ asm_metadata' = combine_SVGs_to_symbol(symbols)
    /\ UNCHANGED <<codec_vars, rec_vars, exp_vars, nm_vars, ext_vars, bld_vars>>

NextAssembler == CombineSVGsToSymbol

(***************************************************************************)
(* Variant extractor (src/svg_functions.py)                                *)
(*                                                                         *)
(* An artifact is read as the list of its marker lines, each a record of   *)
(* its start point, end point and stroke colour (svg_path_to_line).  An    *)
(* attribute that is None in Python is <<>> here, and <<v>> when it holds   *)
(* the value v.                                                            *)
(***************************************************************************)

\* The largest number of marker lines of one artifact.
MaxMarkerLines == 2

\* text_line_colors = [svg.Color("#f00"), svg.Color("rgb(255,0,155)")]
text_line_colors == <<Color(255, 0, 0), Color(255, 0, 155)>>

\* zero_line_colors = [svg.Color("#ff0"), svg.Color("#0ff")]
zero_line_colors == <<Color(255, 255, 0), Color(0, 255, 255)>>

\* svgelements' Color.distance_sq: the "redmean" colour metric.
distance_sq(color1, color2) ==
    LET red_mean == (color1.red + color2.red) \div 2
        r == color1.red - color2.red
        g == color1.green - color2.green
        b == color1.blue - color2.blue
    IN  ((512 + red_mean) * r * r) \div 256
            + 4 * g * g
            + ((767 - red_mean) * b * b) \div 256

\* all([distance_sq(line["color"], c) != 0
\*      for c in (zero_line_colors + text_line_colors)])
IsPinLine(line) ==
    \A c \in 1 .. 4 :
        distance_sq(line.color, (zero_line_colors \o text_line_colors)[c]) # 0

\* svg.Point.__sub__
Minus(pointA, pointB) == Point(pointA.x - pointB.x, pointA.y - pointB.y)

Pin_Anchor(anchor_name, point, default) ==
    [anchor_name |-> anchor_name, point |-> point, default |-> default]

\* node_description["pins"] if "pins" in node_description else []
DeclaredPins(node_description) ==
    IF "pins" \in DOMAIN node_description THEN node_description.pins ELSE <<>>

\* pin_anchors = ["START", "END", *pins] if not is_node else pins
\* pin_anchors = [name for name in pin_anchors if name != "center"]
\* pin_anchors = [Pin_Anchor(name, None, False) for name in pin_anchors]
ExpectedAnchors(is_node, node_description) ==
    LET names == IF ~is_node
                 THEN <<"START", "END">> \o DeclaredPins(node_description)
                 ELSE DeclaredPins(node_description)
        NotCenter(anchor_name) == anchor_name # "center"
        kept == SelectSeq(names, NotCenter)
    IN  [i \in 1 .. Len(kept) |-> Pin_Anchor(kept[i], <<>>, FALSE)]

\* The orientation test reporting an error for a line with both endpoints at
\* the reference point as well.
OrientationErrorAlsoBoth(line, ref_point) ==
    are_two_points_close(line.start, ref_point)
        = are_two_points_close(line.end, ref_point)

\* The path to `errorcode = 1`: the start is not at the reference point, and
\* the end is not either.
OrientationError(line, ref_point) ==
    /\ ~are_two_points_close(line.start, ref_point)
    /\ ~are_two_points_close(line.end, ref_point)

\* The sorting step leaving every line as it was read.
SortLineKeeps(line, ref_point) == line

\* if not close(line["start"], ref_point):
\*     if close(line["end"], ref_point):
\*         line["end"] = line["start"]; line["start"] = ref_point
SortLine(line, ref_point) ==
    IF /\ ~are_two_points_close(line.start, ref_point)
       /\ are_two_points_close(line.end, ref_point)
    THEN [line EXCEPT !.end = line.start, !.start = ref_point]
    ELSE line

\* The lookup wrapping an index beyond the list around.
AnchorAtWraps(pin_anchors, index) ==
    IF Len(pin_anchors) = 0 THEN Raised("IndexError")
    ELSE Returned((index % Len(pin_anchors)) + 1)

\* pin_anchors[index]: the position of the anchor (counted from 1), or the
\* IndexError of an index beyond the list.  color_to_index returns no
\* negative index.
AnchorAt(pin_anchors, index) ==
    IF index >= Len(pin_anchors) THEN Raised("IndexError")
    ELSE Returned(index + 1)

\* The body of `for line in pin_lines` for the i-th pin line.  state holds
\* the local variables pin_anchors and errorcode, the messages printed, the
\* exception raised ("" for none), and in `assigned` the position and the
\* point of every assignment to pin_anchor.point so far.
PinLine(state, line, ref_point) ==
    LET failed == OrientationError(line, ref_point)
        sorted == SortLine(line, ref_point)
        told == [state EXCEPT
                    !.errorcode = IF failed THEN 1 ELSE @,
                    !.printed = IF failed THEN Append(@, "Error parsing line")
                                ELSE @]
        index == color_to_index(sorted.color)
        pin_anchor == IF IsRaised(index) THEN index
                      ELSE AnchorAt(state.pin_anchors, index.returned)
    IN  IF IsRaised(pin_anchor)
        THEN [told EXCEPT !.raised = pin_anchor.raised]
        ELSE [told EXCEPT
                !.pin_anchors[pin_anchor.returned].point =
                    <<Minus(sorted.end, ref_point)>>,
                !.assigned = Append(@, [anchor |-> pin_anchor.returned,
                                        line |-> line,
                                        point |-> Minus(sorted.end, ref_point)])]

RECURSIVE PinLoop(_, _, _, _)
PinLoop(state, pin_lines, ref_point, i) ==
    IF i > Len(pin_lines) \/ state.raised # "" THEN state
    ELSE PinLoop(PinLine(state, pin_lines[i], ref_point), pin_lines, ref_point, i + 1)

\* The append putting center in front of the list.
CenterFirst(pin_anchors, node_description) ==
    IF \E i \in 1 .. Len(DeclaredPins(node_description)) :
            DeclaredPins(node_description)[i] = "center"
    THEN <<Pin_Anchor("center", <<Point(0, 0)>>, FALSE)>> \o pin_anchors
    ELSE pin_anchors

\* if "pins" in node_description and "center" in node_description["pins"]:
\*     pin_anchors.append(Pin_Anchor("center", zero_coordinate, False))
AppendCenter(pin_anchors, node_description) ==
    IF \E i \in 1 .. Len(DeclaredPins(node_description)) :
            DeclaredPins(node_description)[i] = "center"
    THEN Append(pin_anchors, Pin_Anchor("center", <<Point(0, 0)>>, FALSE))
    ELSE pin_anchors

\* The fill giving an anchor without a pin line the tolerance as its offset.
FillPointEps(pin_anchor) ==
    IF pin_anchor.point = <<>> THEN [pin_anchor EXCEPT !.point = <<Point(Eps, Eps)>>]
    ELSE pin_anchor

\* if not pin_anchor.point: pin_anchor.point = svg.Point(0, 0)
\* (Were Point(0, 0) falsy, the assignment would replace it by an equal point.)
FillPoint(pin_anchor) ==
    IF pin_anchor.point = <<>> THEN [pin_anchor EXCEPT !.point = <<Point(0, 0)>>]
    ELSE pin_anchor

\* The marking without the has_default flag: every anchor at the origin is
\* marked.
RECURSIVE DefaultLoopMarksAll(_, _, _)
DefaultLoopMarksAll(pin_anchors, has_default, i) ==
    IF i > Len(pin_anchors) THEN pin_anchors
    ELSE LET pin_anchor == FillPoint(pin_anchors[i])
             marks == are_two_points_close(Point(0, 0), pin_anchor.point[1])
         IN  DefaultLoopMarksAll(
                [pin_anchors EXCEPT ![i] = [pin_anchor EXCEPT !.default = marks]],
                has_default, i + 1)

\* has_default = False
\* for pin_anchor in pin_anchors:
\*     (the fill above)
\*     if not has_default and are_two_points_close(zero_coordinate, pin_anchor.point):
\*         has_default = True; pin_anchor.default = True
RECURSIVE DefaultLoop(_, _, _)
DefaultLoop(pin_anchors, has_default, i) ==
    IF i > Len(pin_anchors) THEN pin_anchors
    ELSE LET pin_anchor == FillPoint(pin_anchors[i])
             marks == /\ ~has_default
                      /\ are_two_points_close(Point(0, 0), pin_anchor.point[1])
         IN  DefaultLoop(
                [pin_anchors EXCEPT
                    ![i] = IF marks THEN [pin_anchor EXCEPT !.default = TRUE]
                           ELSE pin_anchor],
                has_default \/ marks, i + 1)

\* text_line = [line for line in lines if distance_sq(color, text_line_colors[0]) == 0]
IsTextLine(line) == distance_sq(line.color, text_line_colors[1]) = 0

\* if len(text_line) > 0: text_point = text_line[0]["end"] - ref_point
\* <<>> when the fragment gets no textPosition element.
TextPosition(lines, ref_point) ==
    LET text_line == SelectSeq(lines, IsTextLine)
    IN  IF Len(text_line) > 0 THEN <<Minus(text_line[1].end, ref_point)>> ELSE <<>>

\* The <pin> elements of the fragment: name, offset and isDefault.
Pins(pin_anchors) ==
    [i \in 1 .. Len(pin_anchors) |->
        [name |-> pin_anchors[i].anchor_name,
         point |-> pin_anchors[i].point[1],
         isDefault |-> pin_anchors[i].default]]

\* The run of the worker on the marker lines of an artifact: its local
\* state when it ends, `raised` naming the exception that ended it.
WorkerRun(lines, is_node, node_description) ==
    LET start == [pin_anchors |-> ExpectedAnchors(is_node, node_description),
                  errorcode |-> 0, printed |-> <<>>, raised |-> "",
                  assigned |-> <<>>]
        ref_point == find_matching_line_point(lines)
    IN  IF IsRaised(ref_point) THEN [start EXCEPT !.raised = ref_point.raised]
        ELSE PinLoop(start, SelectSeq(lines, IsPinLine), ref_point.returned, 1)

\* return (errorcode, ET.tostring(svg_symbol)): the fragment as a record of
\* its reference point, its pins and its textPosition.
_convert_SVG_to_symbol_worker(lines, is_node, node_description) ==
    LET run == WorkerRun(lines, is_node, node_description)
        ref_point == find_matching_line_point(lines)
    IN  IF run.raised # "" THEN Raised(run.raised)
        ELSE Returned([errorcode |-> run.errorcode,
                       symbol |->
                          [ref |-> ref_point.returned,
                           pins |-> Pins(DefaultLoop(
                                AppendCenter(run.pin_anchors, node_description),
                                FALSE, 1)),
                           textPosition |->
                                TextPosition(lines, ref_point.returned)]])

\* The endpoints a marker line of an artifact can have: the origin, a point
\* within the tolerance of it, and a point away from both.
ArtifactPoints == {Point(0, 0), Point(Eps, 0), Point(3 * Eps, 4 * Eps)}

\* The stroke colours a marker line can have: the text-anchor red, a
\* zero-line colour, the colours of the anchor indices 0 and 1, and black.
ArtifactColors ==
    {text_line_colors[1], zero_line_colors[1],
     index_to_color(0), index_to_color(1), Color(0, 0, 0)}

ArtifactLines == [start : ArtifactPoints, end : ArtifactPoints, color : ArtifactColors]

ArtifactLineLists == UNION {[1 .. n -> ArtifactLines] : n \in 0 .. MaxMarkerLines}

\* The components extracted: a node declaring center and one more pin, and a
\* path declaring no pin.
ExtractedComponents ==
    {[is_node |-> TRUE, node_description |-> [pins |-> <<"center", "a">>]],
     [is_node |-> FALSE, node_description |-> [pins |-> <<>>]]}

\* _convert_DVI_to_symbol_worker hands the marker lines of an artifact to
\* _convert_SVG_to_symbol_worker.
ConvertSVGToSymbol ==
    /\ pc = "idle"
    /\ pc' = "extracted"
    /\ \E lines \in ArtifactLineLists, component \in ExtractedComponents :
        LET run == WorkerRun(lines, component.is_node, component.node_description)
        IN  /\ ext_args' = [lines |-> lines,
                            is_node |-> component.is_node,
                            node_description |-> component.node_description]
            /\ ext_assigned' = run.assigned
            /\ ext_printed' = run.printed
            /\ ext_result' = _convert_SVG_to_symbol_worker(
                    lines, component.is_node, component.node_description)
    /\ UNCHANGED <<codec_vars, rec_vars, exp_vars, nm_vars, asm_vars, bld_vars>>

NextExtractor == ConvertSVGToSymbol

(***************************************************************************)
(* Generator and artifact worker (src/tex_functions.py and                 *)
(* src/svg_functions.py)                                                   *)
(*                                                                         *)
(* The loaded configuration is the dict NODES_AND_PATHS with the lists     *)
(* "nodes" and "path" of component declarations.  The pin list of a        *)
(* declaration is a Python list object that a shallow copy of the          *)
(* declaration shares: the "pins" key holds a reference, and `heap` maps   *)
(* each reference to the list it names.  An option dict holds its name and *)
(* its addPins and subPins lists, which are only read.                     *)
(***************************************************************************)

\* The largest number of options one component declares.
MaxDeclaredOptions == 2

\* A list object is created under the reference ref.
New(hp, ref, list) ==
    [r \in DOMAIN hp \cup {ref} |-> IF r = ref THEN list ELSE hp[r]]

\* option["displayName"] if "displayName" in option else option["name"]
DisplayName(option) ==
    IF "displayName" \in DOMAIN option THEN option.displayName ELSE option.name

OptionsDisplay(option_possibility) ==
    [i \in 1 .. Len(option_possibility) |-> DisplayName(option_possibility[i])]

\* node_description["name"] if is_node else node_description["drawName"]
Label(is_node, node_description) ==
    IF is_node THEN node_description.name ELSE node_description.drawName

\* node_description["options"] if "options" in node_description else []
DeclaredOptions(node_description) ==
    IF "options" \in DOMAIN node_description THEN node_description.options ELSE <<>>

\* addPins = []
\* for option in option_possibility:
\*     if "addPins" in option: addPins.extend(option["addPins"])
\* (and the same for "subPins")
RECURSIVE CollectPins(_, _)
CollectPins(option_possibility, key) ==
    IF Len(option_possibility) = 0 THEN <<>>
    ELSE (IF key \in DOMAIN option_possibility[1]
          THEN option_possibility[1][key] ELSE <<>>)
            \o CollectPins(Tail(option_possibility), key)

\* pin not in subPins
NotIn(pin, subPins) == \A k \in 1 .. Len(subPins) : subPins[k] # pin

\* The anchorLines of one .tex file: per line the colour drawn and the anchor
\* it leads to.
\*   if "pins" in node and len(node["pins"]) > 0:
\*       anchors = [anchor for anchor in node["pins"]
\*                  if anchor not in subPins and anchor != "center"]
\*       anchors.extend(addPins)
\*       for anchorIndex, anchor in enumerate(anchors):
\*           color = index_to_color(anchorIndex)
AnchorLines(hp, node, option_possibility) ==
    LET addPins == CollectPins(option_possibility, "addPins")
        subPins == CollectPins(option_possibility, "subPins")
        Kept(anchor) == NotIn(anchor, subPins) /\ anchor # "center"
    IN  IF "pins" \in DOMAIN node /\ Len(hp[node.pins]) > 0
        THEN LET anchors == SelectSeq(hp[node.pins], Kept) \o addPins
             IN  [anchorIndex \in 1 .. Len(anchors) |->
                    [color |-> index_to_color(anchorIndex - 1),
                     anchor |-> anchors[anchorIndex]]]
        ELSE <<>>

\* The files written for the component at `index` (counted from 0) of one of
\* the two lists, one per selection, in the order of options_object_to_array:
\* the name of the file, the selection it is written for and its anchorLines.
ComponentFiles(hp, index, is_node, node) ==
    LET option_possibilities == options_object_to_array(DeclaredOptions(node))
    IN  [k \in 1 .. Len(option_possibilities) |->
            [basename |-> component_name_from_info(
                            <<index>>, Label(is_node, node), is_node,
                            OptionsDisplay(option_possibilities[k])),
             option_possibility |-> option_possibilities[k],
             anchorLines |-> AnchorLines(hp, node, option_possibilities[k])]]

\* for index, node in enumerate(...): (the files above)
RECURSIVE KindFiles(_, _, _, _)
KindFiles(hp, components, is_node, i) ==
    IF i > Len(components) THEN <<>>
    ELSE ComponentFiles(hp, i - 1, is_node, components[i])
            \o KindFiles(hp, components, is_node, i + 1)

\* The .tex files written, in the order of the writes: for the nodes, then
\* for the paths.
create_tex_files_from_json(config, hp) ==
    KindFiles(hp, config.nodes, TRUE, 1) \o KindFiles(hp, config.path, FALSE, 1)

\* for option_possibility in option_possibilities:
\*     name = component_name_from_info(index, label, is_node, optionsDisplay)
\*     if name == path.stem: break
\* The position the loop stops at: the first selection named as the stem, or
\* the last selection when none is.
RECURSIVE FindSelection(_, _, _, _, _, _)
FindSelection(option_possibilities, index, label, is_node, stem, k) ==
    IF \/ k = Len(option_possibilities)
       \/ component_name_from_info(<<index>>, label, is_node,
                                   OptionsDisplay(option_possibilities[k])) = stem
    THEN k
    ELSE FindSelection(option_possibilities, index, label, is_node, stem, k + 1)

\* The copy keeping the declared pin list: the shallow copy alone.
RebindPinsShared(hp, node_description, subPins) ==
    IF "pins" \in DOMAIN node_description
    THEN [heap |-> hp, copy |-> node_description]
    ELSE [heap |-> New(hp, "fresh", <<>>),
          copy |-> [key \in DOMAIN node_description \cup {"pins"} |->
                        IF key = "pins" THEN "fresh" ELSE node_description[key]]]

\* node_description_copy = node_description.copy()
\* if "pins" in node_description_copy:
\*     node_description_copy["pins"] =
\*         [pin for pin in node_description["pins"] if pin not in subPins]
\* else:
\*     node_description_copy["pins"] = []
\* The copy shares every value of the declaration; its "pins" key is then
\* bound to a list object created here.
RebindPins(hp, node_description, subPins) ==
    LET Kept(pin) == NotIn(pin, subPins)
        list == IF "pins" \in DOMAIN node_description
                THEN SelectSeq(hp[node_description.pins], Kept)
                ELSE <<>>
    IN  [heap |-> New(hp, "fresh", list),
         copy |-> [key \in DOMAIN node_description \cup {"pins"} |->
                        IF key = "pins" THEN "fresh" ELSE node_description[key]]]

\* node_description_copy["pins"].extend(addPins): the list object the copy
\* refers to grows.
ExtendPins(state, addPins) ==
    [state EXCEPT !.heap[state.copy.pins] = @ \o addPins]

\* The worker up to its call of _convert_SVG_to_symbol_worker, and the list
\* pin_anchors that call builds (lines 143-149): what the heap is afterwards,
\* the selection found, the pins of node_description_copy and the names of
\* pin_anchors.
_convert_DVI_to_symbol_worker(config, hp, stem) ==
    LET parsed == parse_filename(stem)
    IN  IF IsRaised(parsed) THEN parsed
        ELSE
        LET index == parsed.returned[1]
            is_node == parsed.returned[2]
            components == IF is_node THEN config.nodes ELSE config.path
        IN  IF index >= Len(components) THEN Raised("IndexError")
            ELSE
            LET node_description == components[index + 1]
                option_possibilities ==
                    options_object_to_array(DeclaredOptions(node_description))
                option_possibility ==
                    option_possibilities[FindSelection(
                        option_possibilities, index,
                        Label(is_node, node_description), is_node, stem, 1)]
                addPins == CollectPins(option_possibility, "addPins")
                subPins == CollectPins(option_possibility, "subPins")
                state == ExtendPins(RebindPins(hp, node_description, subPins),
                                    addPins)
                pins == state.heap[state.copy.pins]
                pin_anchors == ExpectedAnchors(is_node, [pins |-> pins])
            IN  Returned(
                    [heap |-> [r \in DOMAIN hp |-> state.heap[r]],
                     is_node |-> is_node,
                     node_description |-> node_description,
                     option_possibility |-> option_possibility,
                     pins |-> pins,
                     pin_anchors |-> [i \in 1 .. Len(pin_anchors) |->
                                        pin_anchors[i].anchor_name]])

\* The names of options in the configuration: "x", "y=1" and "y-1".
DeclaredOptionNames == {<<"x">>, <<"y", "=", "1">>, <<"y", "-", "1">>}

\* An option as declared: plain, adding a pin, adding center, or removing
\* the pin "a".
DeclaredOption(name) ==
    {[name |-> name],
     [name |-> name, addPins |-> <<"c">>],
     [name |-> name, addPins |-> <<"center">>],
     [name |-> name, subPins |-> <<"a">>]}

\* The option lists a component declares: toggles with different names.
DeclaredOptionLists ==
    {options \in UNION {[1 .. n -> UNION {DeclaredOption(name) :
                                            name \in DeclaredOptionNames}] :
                            n \in 0 .. MaxDeclaredOptions} :
        \A i, j \in 1 .. Len(options) :
            i # j => options[i].name # options[j].name}

\* The pin lists a component declares.
DeclaredPinLists == {<<>>, <<"a">>, <<"center", "a">>}

\* NODES_AND_PATHS and the heap after loading a configuration of one
\* component, a node or a path named A, with or without the key "pins".
Configurations ==
    LET Lists(is_node, component) ==
            IF is_node THEN [nodes |-> <<component>>, path |-> <<>>]
            ELSE [nodes |-> <<>>, path |-> <<component>>]
        Named(is_node, fields) ==
            IF is_node
            THEN [key \in DOMAIN fields \cup {"name"} |->
                    IF key = "name" THEN <<"A">> ELSE fields[key]]
            ELSE [key \in DOMAIN fields \cup {"drawName"} |->
                    IF key = "drawName" THEN <<"A">> ELSE fields[key]]
    IN  {[config |-> Lists(is_node, Named(is_node, [options |-> options])),
          heap |-> <<>>] :
            is_node \in BOOLEAN, options \in DeclaredOptionLists}
        \cup
        {[config |-> Lists(is_node, Named(is_node, [options |-> options,
                                                     pins |-> "declared"])),
          heap |-> [r \in {"declared"} |-> pins]] :
            is_node \in BOOLEAN, options \in DeclaredOptionLists,
            pins \in DeclaredPinLists}

\* utils.py loads nodes.jsonc when the program starts.
LoadConfig ==
    /\ pc = "idle"
    /\ pc' = "loaded"
    /\ \E loaded \in Configurations :
        /\ NODES_AND_PATHS' = loaded.config
        /\ heap' = loaded.heap
    /\ UNCHANGED <<tex_files, dvi_stem, dvi_result>>
    /\ UNCHANGED <<codec_vars, rec_vars, exp_vars, nm_vars, asm_vars, ext_vars>>

\* The generator writes the .tex files of every component and selection.
CreateTexFilesFromJson ==
    /\ pc = "loaded"
    /\ pc' = "generated"
    /\ tex_files' = create_tex_files_from_json(NODES_AND_PATHS, heap)
    /\ UNCHANGED <<NODES_AND_PATHS, heap, dvi_stem, dvi_result>>
    /\ UNCHANGED <<codec_vars, rec_vars, exp_vars, nm_vars, asm_vars, ext_vars>>

\* convert_DVI_to_SVGs runs the worker on the artifact of one of the files,
\* in any order and any number of times.
ConvertDVIToSymbol ==
    /\ pc \in {"generated", "converted"}
    /\ pc' = "converted"
    /\ \E f \in 1 .. Len(tex_files) :
        LET result == _convert_DVI_to_symbol_worker(
                            NODES_AND_PATHS, heap, tex_files[f].basename)
        IN  /\ dvi_stem' = tex_files[f].basename
            /\ dvi_result' = result
            /\ heap' = IF IsRaised(result) THEN heap ELSE result.returned.heap
    /\ UNCHANGED <<NODES_AND_PATHS, tex_files>>
    /\ UNCHANGED <<codec_vars, rec_vars, exp_vars, nm_vars, asm_vars, ext_vars>>

NextBuild == LoadConfig \/ CreateTexFilesFromJson \/ ConvertDVIToSymbol

(***************************************************************************)
(* Initial state: nothing has been called yet.                             *)
(***************************************************************************)
Init ==
    /\ pc = "idle"
    /\ CodecIdle
    /\ rec_lines = None /\ rec_acc = None /\ rec_counted = None /\ rec_point = None
    /\ exp_options = None /\ exp_result = None
    /\ nm_args = None /\ nm_name = None /\ nm_parsed = None
    /\ asm_symbols = None /\ asm_metadata = None
    /\ ext_args = None /\ ext_assigned = None /\ ext_printed = None
    /\ ext_result = None
    /\ NODES_AND_PATHS = None /\ heap = None /\ tex_files = None
    /\ dvi_stem = None /\ dvi_result = None

\* One run makes one chain of calls into one of the components.
Next ==
    \/ NextCodec \/ NextReconciler \/ NextExpander \/ NextNaming \/ NextAssembler
    \/ NextExtractor \/ NextBuild

Spec == Init /\ [][Next]_vars

SpecCodec == Init /\ [][NextCodec]_vars

SpecReconciler == Init /\ [][NextReconciler]_vars

SpecExpander == Init /\ [][NextExpander]_vars

SpecNaming == Init /\ [][NextNaming]_vars

SpecAssembler == Init /\ [][NextAssembler]_vars

SpecExtractor == Init /\ [][NextExtractor]_vars

SpecBuild == Init /\ [][NextBuild]_vars

(***************************************************************************)
(* Claims about the codec                                                  *)
(***************************************************************************)

\* C1: for every i in [0,63], color_to_index(index_to_color(i)) returns i.
C1_RoundTrip ==
    pc = "roundtrip" => codec_result = Returned(codec_index)

\* C2: color_to_index raises for every colour whose red channel is not a
\* multiple of 4, also when green and blue are 153.
C2_RejectsRedNotMultipleOf4 ==
    (pc = "decoded" /\ codec_color.red % 4 # 0) => IsRaised(codec_result)

\* C3: color_to_index raises for every colour whose green channel is not 153
\* or whose blue channel is not 153, whatever the red channel is.
C3_RejectsGreenBlue ==
    (pc \in {"decoded", "roundtrip"}
     /\ (codec_color.green # FixedChannel \/ codec_color.blue # FixedChannel))
        => codec_result = Raised("ValueError")

\* A colour whose red channel passes the red test but whose blue is not 153
\* has been decoded, and the decoding raised.
C3_Witness ==
    /\ pc = "decoded"
    /\ BitAnd(codec_color.red, RedMask) = 0
    /\ codec_color.green = FixedChannel
    /\ codec_color.blue = FixedChannel + 1
    /\ IsRaised(codec_result)

(***************************************************************************)
(* Claims about the point reconciler                                       *)
(***************************************************************************)

RecDone == pc = "reconciled" /\ ~IsRaised(rec_point)

\* The endpoints of the lines: start, end of each line, in input order.
RECURSIVE EndpointsOf(_)
EndpointsOf(lines) ==
    IF lines = <<>> THEN <<>>
    ELSE <<Head(lines).start, Head(lines).end>> \o EndpointsOf(Tail(lines))

RecPoints == EndpointsOf(rec_lines)

\* flags[j]: endpoint j opens a new representative, which it does iff no
\* representative before it is within tolerance of it.
RepFlags(pts) ==
    CHOOSE flags \in [1 .. Len(pts) -> BOOLEAN] :
        \A j \in 1 .. Len(pts) :
            flags[j] <=>
                \A i \in 1 .. j - 1 :
                    flags[i] => ~are_two_points_close(pts[i], pts[j])

\* owner[j]: the endpoint whose representative endpoint j is counted under,
\* the first representative up to j within tolerance of it.
Owners(pts, flags) ==
    [j \in 1 .. Len(pts) |->
        CHOOSE i \in 1 .. j :
            /\ flags[i]
            /\ are_two_points_close(pts[i], pts[j])
            /\ \A h \in 1 .. i - 1 :
                flags[h] => ~are_two_points_close(pts[h], pts[j])]

\* C4: the endpoints are processed in flattened order, each counted under the
\* first-inserted representative within tolerance or made a new representative
\* with count 1; the result is the representative of greatest count, the
\* first inserted among equals.
C4_Reconciler ==
    RecDone =>
        LET pts == RecPoints
            flags == RepFlags(pts)
            owner == Owners(pts, flags)
            reps == {i \in 1 .. Len(pts) : flags[i]}
            count == [i \in reps |->
                        Cardinality({j \in 1 .. Len(pts) : owner[j] = i})]
            winner == CHOOSE i \in reps :
                        /\ \A h \in reps : count[h] <= count[i]
                        /\ \A h \in reps : h < i => count[h] < count[i]
        IN  /\ Len(rec_acc) = Cardinality(reps)
            /\ \A i \in reps :
                rec_acc[Cardinality({h \in reps : h <= i})]
                    = [key |-> pts[i], count |-> count[i]]
            /\ \A j \in 1 .. Len(pts) : rec_counted[j] = pts[owner[j]]
            /\ rec_point = Returned(pts[winner])

\* Two representatives tie for the greatest count and the first one inserted
\* is returned, the second being a different point.
C4_Witness ==
    /\ RecDone
    /\ Len(rec_acc) >= 2
    /\ rec_acc[1].count = 2
    /\ rec_acc[2].count = 2
    /\ rec_point = Returned(rec_acc[1].key)
    /\ rec_acc[2].key # rec_acc[1].key

\* C5 as stated: endpoints within tolerance of each other are counted under
\* the same representative, and endpoints further apart on either axis never.
C5_Original ==
    RecDone =>
        \A i, j \in 1 .. Len(RecPoints) :
            are_two_points_close(RecPoints[i], RecPoints[j])
                <=> rec_counted[i] = rec_counted[j]

\* C5 amended: every endpoint is counted under a representative within
\* tolerance of it on both axes (so two endpoints under one representative
\* differ by at most twice the tolerance on each axis), and two distinct
\* representatives are never within tolerance of each other.
C5_Tolerance ==
    RecDone =>
        /\ \A j \in 1 .. Len(RecPoints) :
            /\ RecPoints[j].x - rec_counted[j].x \in -Eps .. Eps
            /\ RecPoints[j].y - rec_counted[j].y \in -Eps .. Eps
            /\ \E k \in 1 .. Len(rec_acc) : rec_acc[k].key = rec_counted[j]
        /\ \A i, j \in 1 .. Len(RecPoints) :
            rec_counted[i] = rec_counted[j] =>
                /\ RecPoints[i].x - RecPoints[j].x \in -2 * Eps .. 2 * Eps
                /\ RecPoints[i].y - RecPoints[j].y \in -2 * Eps .. 2 * Eps
        /\ \A k, l \in 1 .. Len(rec_acc) :
            k # l =>
                \/ rec_acc[k].key.x - rec_acc[l].key.x \notin -Eps .. Eps
                \/ rec_acc[k].key.y - rec_acc[l].key.y \notin -Eps .. Eps

\* Two endpoints exactly the tolerance apart on x are counted together, while a
\* third, equal in x but out of tolerance in y, is a representative of its own.
C5_Witness ==
    /\ RecDone
    /\ Len(RecPoints) = 4
    /\ RecPoints[2].x = RecPoints[1].x + Eps
    /\ RecPoints[2].y = RecPoints[1].y
    /\ rec_counted[2] = RecPoints[1]
    /\ RecPoints[3].x = RecPoints[1].x
    /\ RecPoints[3].y # RecPoints[1].y
    /\ rec_counted[3] = RecPoints[3]

(***************************************************************************)
(* Claims about the option expander                                        *)
(***************************************************************************)

IsEnum(spec) == "enumOptions" \in DOMAIN spec

\* selectNone is true or absent.
NoneAllowed(spec) == "selectNone" \in DOMAIN spec => spec.selectNone

AxisMultiplier(spec) ==
    IF IsEnum(spec)
    THEN Len(spec.enumOptions) + (IF NoneAllowed(spec) THEN 1 ELSE 0)
    ELSE 2

RECURSIVE MultiplierProduct(_)
MultiplierProduct(specs) ==
    IF specs = <<>> THEN 1
    ELSE AxisMultiplier(Head(specs)) * MultiplierProduct(Tail(specs))

\* C6: the number of selections is the product over the axes of 2 for a
\* toggle and |enumOptions| (+1 if selectNone is true or absent) for an
\* enumeration; the empty list yields exactly the empty selection.
C6_Cardinality ==
    pc = "expanded" =>
        /\ Len(exp_result) = MultiplierProduct(exp_options)
        /\ exp_options = <<>> => exp_result = << <<>> >>

\* A 3-way enumeration with selectNone true and a toggle give 8 selections,
\* and the same enumeration with selectNone false would give 6.
C6_Witness ==
    /\ pc = "expanded"
    /\ Len(exp_options) = 2
    /\ IsEnum(exp_options[1])
    /\ Len(exp_options[1].enumOptions) = 3
    /\ "selectNone" \in DOMAIN exp_options[1]
    /\ exp_options[1].selectNone
    /\ ~IsEnum(exp_options[2])
    /\ Len(exp_result) = 8

\* C7: with rest = expand(tail), an enumeration head gives [e, ...r] for each
\* leaf e in declared order and each r in rest order, then (selectNone true or
\* absent) every r of rest; a toggle head gives, for each r in rest order,
\* [head, ...r] immediately followed by r; and nothing else.
C7_Ordering ==
    (pc = "expanded" /\ exp_options # <<>>) =>
        LET head == exp_options[1]
            rest == options_object_to_array(Tail(exp_options))
            m == Len(rest)
        IN  IF IsEnum(head)
            THEN LET n == Len(head.enumOptions)
                 IN  /\ Len(exp_result) = n * m + (IF NoneAllowed(head) THEN m ELSE 0)
                     /\ \A i \in 1 .. n, j \in 1 .. m :
                         exp_result[(i - 1) * m + j]
                             = <<head.enumOptions[i]>> \o rest[j]
                     /\ NoneAllowed(head) =>
                         \A j \in 1 .. m : exp_result[n * m + j] = rest[j]
            ELSE /\ Len(exp_result) = 2 * m
                 /\ \A j \in 1 .. m :
                     /\ exp_result[2 * j - 1] = <<head>> \o rest[j]
                     /\ exp_result[2 * j] = rest[j]

\* A toggle followed by a two-leaf enumeration without selectNone: the
\* selections alternate toggle on and off over the three selections of rest.
C7_Witness ==
    /\ pc = "expanded"
    /\ Len(exp_options) = 2
    /\ ~IsEnum(exp_options[1])
    /\ IsEnum(exp_options[2])
    /\ "selectNone" \notin DOMAIN exp_options[2]
    /\ Len(exp_options[2].enumOptions) = 2
    /\ exp_result = << <<exp_options[1], exp_options[2].enumOptions[1]>>,
                       <<exp_options[2].enumOptions[1]>>,
                       <<exp_options[1], exp_options[2].enumOptions[2]>>,
                       <<exp_options[2].enumOptions[2]>>,
                       <<exp_options[1]>>,
                       <<>> >>

(***************************************************************************)
(* Claims about the naming scheme                                          *)
(***************************************************************************)

\* C8: for every non-negative index, label, kind and list of option display
\* names, parse_filename(component_name_from_info(index, label, is_node,
\* options)) returns (index, is_node).
C8_NamingRoundTrip ==
    pc = "parsed" => nm_parsed = Returned(<<nm_args.index, nm_args.isnode>>)

\* The spec's example with a shortened label: index 3, a label holding a blank
\* and an underscore, a node, the option "x=1": the name is
\* node_003_-__x-1 and parses to (3, true).
C8_Witness ==
    /\ pc = "parsed"
    /\ nm_args = [index |-> 3, id |-> <<" ", "_">>, isnode |-> TRUE,
                  options |-> << <<"x", "=", "1">> >>]
    /\ nm_name = <<"n", "o", "d", "e", "_", "0", "0", "3", "_", "-", "_", "_",
                   "x", "-", "1">>
    /\ nm_parsed = Returned(<<3, TRUE>>)

(***************************************************************************)
(* Claims about the library assembler                                      *)
(***************************************************************************)

\* The ComponentIdentity of a fragment: (kind, label).
Identity(symbol) == <<symbol.type, symbol.tikz>>

\* The positions of asm_symbols at which an identity is seen first.
FirstSeen ==
    {i \in 1 .. Len(asm_symbols) :
        \A h \in 1 .. i - 1 : Identity(asm_symbols[h]) # Identity(asm_symbols[i])}

\* The ids of the fragments of one identity, in input order.
IdsOf(identity) ==
    LET HasIdentity(symbol) == Identity(symbol) = identity
        those == SelectSeq(asm_symbols, HasIdentity)
    IN  [k \in 1 .. Len(those) |-> those[k].id]

\* C9: one component record per distinct identity among the fragments, the
\* records in the order in which each identity was first seen, the variants of
\* a record in the relative order of their fragments in the input.
C9_Grouping ==
    pc = "assembled" =>
        /\ Len(asm_metadata) = Cardinality(FirstSeen)
        /\ \A i \in FirstSeen :
            LET component == asm_metadata[Cardinality({h \in FirstSeen : h <= i})]
            IN  /\ <<component.type, component.tikz>> = Identity(asm_symbols[i])
                /\ [k \in 1 .. Len(component.variants) |-> component.variants[k].for]
                        = IdsOf(Identity(asm_symbols[i]))

\* C10: the grouping key is (kind, label): no component record holds the
\* variants of two fragments whose kinds differ.
C10_KindInKey ==
    pc = "assembled" =>
        \A c \in 1 .. Len(asm_metadata) :
            \A v, w \in 1 .. Len(asm_metadata[c].variants) :
                \A i, j \in 1 .. Len(asm_symbols) :
                    (/\ asm_symbols[i].id = asm_metadata[c].variants[v].for
                     /\ asm_symbols[j].id = asm_metadata[c].variants[w].for)
                        => asm_symbols[i].type = asm_symbols[j].type

(***************************************************************************)
(* Claims about the variant extractor                                      *)
(***************************************************************************)

\* The extraction returned a fragment.
Extracted == pc = "extracted" /\ ~IsRaised(ext_result)

\* The <pin> elements of the fragment returned, in document order.
FragmentPins == ext_result.returned.symbol.pins

\* An offset within the tolerance of (0, 0), on both axes.
AtOrigin(point) ==
    /\ point.x >= -Eps /\ point.x <= Eps
    /\ point.y >= -Eps /\ point.y <= Eps

\* C11: in every fragment the extraction returns, an anchor is marked
\* isDefault exactly when its offset is within the tolerance of (0, 0) and no
\* anchor before it in the final list is; so at most one anchor is marked,
\* and none when no offset is at the origin.
C11_DefaultAnchor ==
    Extracted =>
        \A i \in 1 .. Len(FragmentPins) :
            FragmentPins[i].isDefault <=>
                /\ AtOrigin(FragmentPins[i].point)
                /\ \A j \in 1 .. i - 1 : ~AtOrigin(FragmentPins[j].point)

\* A fragment whose first anchor is away from the origin and whose second
\* anchor is the default one.
C11_Witness ==
    /\ Extracted
    /\ Len(FragmentPins) >= 2
    /\ ~AtOrigin(FragmentPins[1].point)
    /\ FragmentPins[2].isDefault

\* The reference point of the artifact extracted (it has a marker line).
RefPoint == find_matching_line_point(ext_args.lines).returned

\* The point is within the tolerance of the reference point.
AtRef(point) ==
    AtOrigin([x |-> point.x - RefPoint.x, y |-> point.y - RefPoint.y])

\* Exactly one endpoint of the line is at the reference point.
OneEndAtRef(line) == AtRef(line.start) # AtRef(line.end)

\* The endpoint of such a line that is away from the reference point.
FarEnd(line) == IF AtRef(line.start) THEN line.end ELSE line.start

\* The colour is none of the four reserved ones: the line is a pin marker.
IsPinMarker(line) ==
    line.color \notin {Color(255, 0, 0), Color(255, 0, 155),
                       Color(255, 255, 0), Color(0, 255, 255)}

\* The positions in the artifact of its pin-marker lines, in order.
PinMarkers ==
    LET RECURSIVE From(_)
        From(i) == IF i > Len(ext_args.lines) THEN <<>>
                   ELSE (IF IsPinMarker(ext_args.lines[i]) THEN <<i>> ELSE <<>>)
                            \o From(i + 1)
    IN  From(1)

\* C12: when a fragment is returned, each pin-marker line made one
\* assignment, in line order; the assignment of a line with exactly one
\* endpoint at the reference point went to the anchor at the index its colour
\* encodes (red / 4) and gave it the far endpoint minus the reference point,
\* whichever endpoint the line starts at; and the fragment shows for each
\* anchor the offset of the last assignment made to it.
C12_PinOffset ==
    Extracted =>
        /\ Len(ext_assigned) = Len(PinMarkers)
        /\ \A k \in 1 .. Len(ext_assigned) :
            LET line == ext_args.lines[PinMarkers[k]]
            IN  /\ ext_assigned[k].line = line
                /\ ext_assigned[k].anchor = line.color.red \div 4 + 1
                /\ OneEndAtRef(line) =>
                    /\ ext_assigned[k].point.x = FarEnd(line).x - RefPoint.x
                    /\ ext_assigned[k].point.y = FarEnd(line).y - RefPoint.y
                /\ (\A l \in k + 1 .. Len(ext_assigned) :
                        ext_assigned[l].anchor # ext_assigned[k].anchor)
                    => FragmentPins[ext_assigned[k].anchor].point
                            = ext_assigned[k].point

\* A fragment with a pin-marker line that ends at the reference point and
\* starts away from it.
C12_Witness ==
    /\ Extracted
    /\ \E k \in 1 .. Len(ext_assigned) :
        /\ AtRef(ext_assigned[k].line.end)
        /\ ~AtRef(ext_assigned[k].line.start)
        /\ FragmentPins[ext_assigned[k].anchor].point
                = [x |-> ext_assigned[k].line.start.x - RefPoint.x,
                   y |-> ext_assigned[k].line.start.y - RefPoint.y]

\* The positions in the artifact of its text-anchor lines (reserved red).
TextMarkers ==
    {i \in 1 .. Len(ext_args.lines) : ext_args.lines[i].color = Color(255, 0, 0)}

\* C13: when a fragment is returned and the artifact has a text-anchor line,
\* the first one having exactly one endpoint at the reference point, the
\* textPosition recorded is that line's far endpoint minus the reference
\* point, whichever endpoint the line starts at.
C13_TextAnchor ==
    (Extracted /\ TextMarkers # {}) =>
        LET line == ext_args.lines[CHOOSE i \in TextMarkers :
                                        \A j \in TextMarkers : i <= j]
        IN  OneEndAtRef(line) =>
                ext_result.returned.symbol.textPosition
                    = <<[x |-> FarEnd(line).x - RefPoint.x,
                         y |-> FarEnd(line).y - RefPoint.y]>>

\* The positions in the fragment's pin list of the expected anchors: all but
\* the center appended when the component declares it.
ExpectedPositions ==
    LET declared == ext_args.node_description.pins
    IN  1 .. (Len(FragmentPins)
                - (IF \E i \in 1 .. Len(declared) : declared[i] = "center"
                   THEN 1 ELSE 0))

\* The expected anchors no pin-marker line was assigned to.
MissingAnchors ==
    {i \in ExpectedPositions :
        \A k \in 1 .. Len(ext_assigned) : ext_assigned[k].anchor # i}

\* A pin-marker line with neither endpoint at the reference point.
StrayLines ==
    {i \in 1 .. Len(ext_args.lines) :
        /\ IsPinMarker(ext_args.lines[i])
        /\ ~AtRef(ext_args.lines[i].start)
        /\ ~AtRef(ext_args.lines[i].end)}

Unoriented == {k \in 1 .. Len(ext_assigned) : ~OneEndAtRef(ext_assigned[k].line)}

\* The length of the expected anchor list of the component extracted: START
\* and END for a path, and the declared pins but center.
ExpectedCount ==
    LET declared == ext_args.node_description.pins
    IN  (IF ext_args.is_node THEN 0 ELSE 2)
            + Cardinality({i \in 1 .. Len(declared) : declared[i] # "center"})

\* Every pin-marker line has a colour that encodes an index of the expected
\* anchor list of the component.
ColoursExpected ==
    \A i \in 1 .. Len(ext_args.lines) :
        IsPinMarker(ext_args.lines[i]) =>
            ext_args.lines[i].color
                \in {Color(4 * n, 153, 153) : n \in 0 .. ExpectedCount - 1}

\* C15 as stated: when a fragment is returned and some pin-marker line has
\* both endpoints, or neither, at the reference point, the result code is
\* non-zero.
C15_Original ==
    (Extracted /\ Unoriented # {}) => ext_result.returned.errorcode # 0

\* C15: the orientation of its lines never stops an extraction (an artifact
\* with a marker line and only expected pin colours yields a fragment); the
\* result code of a fragment is 1 when some pin-marker line has neither
\* endpoint at the reference point and 0 otherwise, so a line with both
\* endpoints, or exactly one, at the reference point does not raise it; and a
\* line with both or neither endpoint there gives its original end point,
\* minus the reference point, to its anchor.
C15_Orientation ==
    /\ (pc = "extracted" /\ Len(ext_args.lines) > 0 /\ ColoursExpected)
            => ~IsRaised(ext_result)
    /\ Extracted =>
        /\ ext_result.returned.errorcode = (IF StrayLines = {} THEN 0 ELSE 1)
        /\ \A k \in Unoriented :
            ext_assigned[k].point
                = [x |-> ext_assigned[k].line.end.x - RefPoint.x,
                   y |-> ext_assigned[k].line.end.y - RefPoint.y]

\* A fragment from an artifact with one pin-marker line that has both
\* endpoints at the reference point, at two different points, and no other
\* pin-marker line: its result code is 0.
C15_Witness ==
    /\ Extracted
    /\ Len(ext_assigned) = 1
    /\ AtRef(ext_assigned[1].line.start)
    /\ AtRef(ext_assigned[1].line.end)
    /\ ext_assigned[1].line.start # ext_assigned[1].line.end
    /\ ext_result.returned.errorcode = 0

\* The pin-marker lines whose colour color_to_index does not decode, or
\* decodes to an index that is not one of the expected anchor list.
UnknownPinColours ==
    {i \in 1 .. Len(ext_args.lines) :
        /\ IsPinMarker(ext_args.lines[i])
        /\ LET decoded == color_to_index(ext_args.lines[i].color)
           IN  IsRaised(decoded) \/ decoded.returned >= ExpectedCount}

\* C16: an extraction of an artifact that has a pin-marker line whose colour
\* does not decode, or decodes to an index at or beyond the length of the
\* expected anchor list, ends with an exception: it returns no fragment.
C16_UnknownPinColour ==
    (pc = "extracted" /\ UnknownPinColours # {}) => IsRaised(ext_result)

\* An extraction ended by a pin-marker line whose colour decodes to an index
\* beyond the expected anchor list, after an assignment to another anchor.
C16_Witness ==
    /\ pc = "extracted"
    /\ ext_assigned # <<>>
    /\ \E i \in UnknownPinColours :
            ~IsRaised(color_to_index(ext_args.lines[i].color))
    /\ ext_result = Raised("IndexError")

\* The anchors of the fragment with an offset within the tolerance of (0, 0).
ZeroAnchors == {i \in 1 .. Len(FragmentPins) : AtOrigin(FragmentPins[i].point)}

\* The anchor names in the order the component declares them: START and END
\* of a path, then its pins.
DeclarationOrder ==
    (IF ext_args.is_node THEN <<>> ELSE <<"START", "END">>)
        \o ext_args.node_description.pins

\* The same with center moved to the end: the order of the fragment's pins.
FinalOrder ==
    LET RECURSIVE Others(_)
        Others(names) ==
            IF names = <<>> THEN <<>>
            ELSE (IF names[1] = "center" THEN <<>> ELSE <<names[1]>>)
                    \o Others(Tail(names))
    IN  Others(DeclarationOrder)
            \o (IF \E i \in 1 .. Len(DeclarationOrder) : DeclarationOrder[i] = "center"
                THEN <<"center">> ELSE <<>>)

\* The name of the first anchor in `order` that is one of ZeroAnchors.
FirstZeroIn(order) ==
    LET zero == {n \in 1 .. Len(order) :
                    \E i \in ZeroAnchors : FragmentPins[i].name = order[n]}
    IN  order[CHOOSE n \in zero : \A m \in zero : n <= m]

\* C18 as stated: when a fragment has more than one anchor with a zero
\* offset, the first of them in declaration order is the one marked default,
\* and an error is reported: a message is printed or the result code is
\* non-zero.
C18_Original ==
    (Extracted /\ Cardinality(ZeroAnchors) >= 2) =>
        /\ \A i \in ZeroAnchors :
            FragmentPins[i].isDefault
                <=> FragmentPins[i].name = FirstZeroIn(DeclarationOrder)
        /\ \/ ext_printed # <<>>
           \/ ext_result.returned.errorcode # 0

\* C18: when a fragment has more than one anchor with a zero offset, its pins
\* are in final order (the expected anchors, then center), the first of the
\* zero-offset anchors in that order is the one marked default, and no error
\* is reported for the others: the result code is 0 and nothing is printed
\* unless a pin-marker line has neither endpoint at the reference point.
C18_AmbiguousDefault ==
    (Extracted /\ Cardinality(ZeroAnchors) >= 2) =>
        /\ [i \in 1 .. Len(FragmentPins) |-> FragmentPins[i].name] = FinalOrder
        /\ \A i \in ZeroAnchors :
            FragmentPins[i].isDefault
                <=> FragmentPins[i].name = FirstZeroIn(FinalOrder)
        /\ StrayLines = {} =>
            /\ ext_printed = <<>>
            /\ ext_result.returned.errorcode = 0

\* A fragment of a component that declares center first, where a pin and
\* center both have a zero offset: the pin is marked default, and the result
\* code is 0.
C18_Witness ==
    /\ Extracted
    /\ Cardinality(ZeroAnchors) >= 2
    /\ DeclarationOrder[1] = "center"
    /\ FirstZeroIn(FinalOrder) # "center"
    /\ ext_result.returned.errorcode = 0

(***************************************************************************)
(* Claims about the generator and the artifact worker                      *)
(***************************************************************************)

\* The worker returned from its last run.
Converted == pc = "converted" /\ ~IsRaised(dvi_result)

\* The pins the component of the last run declares.
ConvertedPins ==
    LET node_description == dvi_result.returned.node_description
    IN  IF "pins" \in DOMAIN node_description THEN heap[node_description.pins]
        ELSE <<>>

\* The names in the subPins of the options of the selection found.
SelectedSubPins ==
    LET selection == dvi_result.returned.option_possibility
    IN  {selection[i].subPins[k] :
            i \in {j \in 1 .. Len(selection) : "subPins" \in DOMAIN selection[j]},
            k \in {1}}

\* The addPins of the options of the selection found, in selection order.
SelectedAddPins ==
    LET selection == dvi_result.returned.option_possibility
        RECURSIVE From(_)
        From(i) == IF i > Len(selection) THEN <<>>
                   ELSE (IF "addPins" \in DOMAIN selection[i]
                         THEN selection[i].addPins ELSE <<>>) \o From(i + 1)
    IN  From(1)

\* The declared pins that are not center and in no selected subPins.
KeptPins ==
    LET RECURSIVE From(_)
        From(i) == IF i > Len(ConvertedPins) THEN <<>>
                   ELSE (IF /\ ConvertedPins[i] # "center"
                            /\ ConvertedPins[i] \notin SelectedSubPins
                         THEN <<ConvertedPins[i]>> ELSE <<>>) \o From(i + 1)
    IN  From(1)

\* C17: the anchor names the worker decodes pin colours against are START
\* and END for a path, then the declared pins without center and without the
\* names in a selected option's subPins, then the addPins of the selected
\* options in selection order.
C17_ExpectedAnchorList ==
    Converted =>
        dvi_result.returned.pin_anchors
            = (IF dvi_result.returned.is_node THEN <<>> ELSE <<"START", "END">>)
                \o KeptPins \o SelectedAddPins

\* The .tex file the artifact of the last run was made from: the last one
\* written under its stem.
ConvertedFile ==
    LET written == {f \in 1 .. Len(tex_files) : tex_files[f].basename = dvi_stem}
    IN  tex_files[CHOOSE f \in written : \A g \in written : g <= f]

\* C20: for the artifact of every component and selection, each anchor line
\* the generator drew has a colour that decodes to a position of the worker's
\* anchor list, and the name at that position is the anchor the line was
\* drawn to.
C20_SameIndices ==
    Converted =>
        \A l \in 1 .. Len(ConvertedFile.anchorLines) :
            LET line == ConvertedFile.anchorLines[l]
                decoded == color_to_index(line.color)
            IN  /\ ~IsRaised(decoded)
                /\ decoded.returned < Len(dvi_result.returned.pin_anchors)
                /\ dvi_result.returned.pin_anchors[decoded.returned + 1]
                        = line.anchor

\* A step from a state with a loaded configuration leaves NODES_AND_PATHS and
\* the list objects it refers to (the declared pins) as they are.
ConfigKept ==
    pc \in {"loaded", "generated", "converted"} =>
        (NODES_AND_PATHS' = NODES_AND_PATHS /\ heap' = heap)

\* C19: once the configuration is loaded, no step of the generator or of the
\* worker changes it, whatever selections are extracted and in whatever
\* order: every extraction starts from the pins as declared.
C19_ConfigUnchanged == [][ConfigKept]_vars

\* The worker has run for a selection that adds a pin and removes a declared
\* one: the pin list it extracts with differs from the declared list.
C19_Witness ==
    /\ Converted
    /\ SelectedAddPins # <<>>
    /\ \E i \in 1 .. Len(ConvertedPins) : ConvertedPins[i] \in SelectedSubPins
    /\ dvi_result.returned.pins # ConvertedPins

\* C21: the files the generator writes for two different selections of one
\* component have different names, and the selection the worker finds for
\* the stem of an artifact is the one of the file written last under that
\* name.
C21_IdentifierInjective ==
    /\ pc \in {"generated", "converted"} =>
        \A f, g \in 1 .. Len(tex_files) :
            tex_files[f].option_possibility # tex_files[g].option_possibility
                => tex_files[f].basename # tex_files[g].basename
    /\ Converted =>
        dvi_result.returned.option_possibility = ConvertedFile.option_possibility

\* The places <<component, variant>> of the variants of asm_metadata.
VariantPlaces ==
    {<<c, v>> \in (1 .. Len(asm_metadata)) \X (1 .. MaxFragments) :
        v <= Len(asm_metadata[c].variants)}

\* The places of the variants made for the fragment at position i.
PlacesOf(i) ==
    {place \in VariantPlaces :
        asm_metadata[place[1]].variants[place[2]].for = asm_symbols[i].id}

\* The names of the option leaves of a fragment that carry `active`.
ActiveLeaves(symbol) ==
    LET active == SelectSeq(symbol.options, IsActive)
    IN  [k \in 1 .. Len(active) |-> [name |-> active[k].name]]

\* C22: every fragment has exactly one variant, in exactly one component
\* record; there are as many variants as fragments; and the variant of a
\* fragment carries the pins and the active option leaves of that fragment.
C22_Conservation ==
    pc = "assembled" =>
        /\ Cardinality(VariantPlaces) = Len(asm_symbols)
        /\ \A i \in 1 .. Len(asm_symbols) :
            /\ Cardinality(PlacesOf(i)) = 1
            /\ \A place \in PlacesOf(i) :
                LET variant == asm_metadata[place[1]].variants[place[2]]
                IN  /\ variant.pins = asm_symbols[i].pins
                    /\ variant.options = ActiveLeaves(asm_symbols[i])

\* Three fragments in two records: a record holds a node and a path fragment
\* with different pins, the first without and the second with an active
\* option.
C22_Witness ==
    /\ pc = "assembled"
    /\ Len(asm_symbols) = MaxFragments
    /\ Len(asm_metadata) = 2
    /\ \E c \in 1 .. Len(asm_metadata) :
        /\ Len(asm_metadata[c].variants) = 2
        /\ asm_metadata[c].variants[1].pins # asm_metadata[c].variants[2].pins
        /\ asm_metadata[c].variants[1].options = <<>>
        /\ asm_metadata[c].variants[2].options # <<>>

\* The option descriptors of a fragment without the `active` flags.
Descriptors(symbol) ==
    [k \in 1 .. Len(symbol.options) |-> [symbol.options[k] EXCEPT !.active = FALSE]]

\* C23: no option leaf of the options block of a component record carries
\* `active`, and the block is the descriptor block of every fragment of the
\* record, so it does not depend on which of them comes first.
C23_SharedBlockStateless ==
    pc = "assembled" =>
        \A c \in 1 .. Len(asm_metadata) :
            /\ \A k \in 1 .. Len(asm_metadata[c].options) :
                ~IsActive(asm_metadata[c].options[k])
            /\ \A i \in 1 .. Len(asm_symbols) :
                asm_symbols[i].tikz = asm_metadata[c].tikz
                    => asm_metadata[c].options = Descriptors(asm_symbols[i])

====
